---- MODULE Spec2Model ----
(***************************************************************************)
(* Model of filemaker-rag: FileMakerGraph (parse_xml, bfs_search,          *)
(* dfs_search, get_node_context, get_path_context) and FileMakerRAG        *)
(* (format_context, the path gathering of query).                          *)
(*                                                                         *)
(* Node ids are modelled as positive integers; 0 stands for an element     *)
(* that has no id attribute or an empty one (falsy in `if node_id:`).      *)
(***************************************************************************)
EXTENDS Integers, Sequences, FiniteSets, TLC

VARIABLES
    xml,              \* the file handed to the last parse_xml call
    graph,            \* self.graph: node -> its out-edges in insertion order, with edge data
    node_attributes,  \* self.node_attributes
    pc,               \* "idle", "bfs" (inside the while loop), "dfs" (inside the recursion)
    call,             \* the last call: operation and arguments
    error,            \* <<>> or the message parts of the raised exception
    visited,          \* local of bfs_search / dfs_search
    paths,            \* local of bfs_search / dfs_search, and their return value
    queue,            \* local of bfs_search
    stack,            \* call stack of dfs_recursive frames
    returned,         \* return value of get_node_context / get_path_context
    bfs_paths,        \* local of query: what bfs_search returned
    all_paths,        \* local of query: the set of paths of both searches
    contexts,         \* argument of format_context
    formatted         \* lines returned by format_context

vars == <<xml, graph, node_attributes, pc, call, error,
          visited, paths, queue, stack, returned, bfs_paths, all_paths,
          contexts, formatted>>

\* ---------------------------------------------------------------- bounds
MaxElems == 4      \* elements per enumerated input tree
MaxHops == 2       \* max_hops ranges over 0..MaxHops
MaxPathArg == 2    \* length of the path handed to get_path_context
MaxContexts == 3   \* length of the list handed to format_context

\* ---------------------------------------------------------------- helpers
Range(s) == {s[i] : i \in 1..Len(s)}

NoDup(s) == \A i, j \in 1..Len(s) : i # j => s[i] # s[j]

Last(s) == s[Len(s)]

RECURSIVE SeqMax(_)
SeqMax(s) == IF s = <<>> THEN 0
             ELSE LET m == SeqMax(Tail(s)) IN IF Head(s) > m THEN Head(s) ELSE m

\* ---------------------------------------------------------------- input trees
\* A document is the sequence of its elements in document order (the order of
\* root.iter()); each element has the index of its parent element (0 for the
\* root), its id attribute (0: none or empty) and its tag.

RECURSIVE AncestorsOrSelf(_, _)
AncestorsOrSelf(parent, i) ==
    IF i = 0 THEN {} ELSE {i} \cup AncestorsOrSelf(parent, parent[i])

RECURSIVE Depth(_, _)
Depth(parent, i) == IF parent[i] = 0 THEN 0 ELSE 1 + Depth(parent, parent[i])

\* Parent arrays whose index order is the pre-order of the tree.
Shapes(n) ==
    { p \in [1..n -> 0..(n - 1)] :
        /\ p[1] = 0
        /\ \A i \in 2..n : p[i] \in AncestorsOrSelf(p, i - 1) }

\* Ids are opaque strings, so only the pattern of equal ids matters: the
\* first id met in document order is 1, the next new one 2, and so on.
Labelings(n) ==
    { l \in [1..n -> 0..n] :
        \A i \in 1..n : l[i] <= 1 + SeqMax(SubSeq(l, 1, i - 1)) }

\* Tags follow the nesting of a DDR export.
TagAt(d) == IF d = 0 THEN "File"
            ELSE IF d = 1 THEN "BaseTable"
            ELSE IF d = 2 THEN "Field" ELSE "Item"

MkDoc(p, l) ==
    [i \in 1..Len(p) |-> [parent |-> p[i], id |-> l[i], tag |-> TagAt(Depth(p, i))]]

\* <A id=1><B id=2><C id=3/></B><C id=3><D id=4/></C></A>: ids repeat across
\* catalogs of a DDR, here id 3 names two elements.
SampleDoc == MkDoc(<<0, 1, 2, 1, 4>>, <<1, 2, 3, 3, 4>>)

Docs == UNION { { MkDoc(p, l) : p \in Shapes(n), l \in Labelings(n) } : n \in 1..MaxElems }
        \cup {SampleDoc}

\* What a path names on disk.
BadFiles == {[kind |-> "missing"], [kind |-> "malformed"], [kind |-> "unreadable"]}
Files == BadFiles \cup {[kind |-> "xml", doc |-> d] : d \in Docs}

NoFile == [kind |-> "none"]

MaxId == IF MaxElems > 4 THEN MaxElems ELSE 4
Ids == 1..MaxId
\* Ids a caller may ask about: every id a store can hold, and one no store holds.
QueryIds == 1..(MaxId + 1)

\* ---------------------------------------------------------------- networkx DiGraph
\* The DiGraph is its adjacency dict: DOMAIN graph is the node set and
\* graph[u] lists u's out-edges in insertion order.

\* add_node(n): a new node gets an empty adjacency, a known one is kept.
add_node(g, n) == IF n \in DOMAIN g THEN g ELSE (n :> <<>>) @@ g

\* add_edge(u, v, relationship=r): both ends become nodes; a new neighbour is
\* appended to u's adjacency; an existing edge keeps its place and has its
\* data updated.
add_edge(g, u, v, r) ==
    LET h == add_node(add_node(g, u), v) IN
    IF \E k \in 1..Len(h[u]) : h[u][k].to = v
    THEN [h EXCEPT ![u] = [k \in 1..Len(h[u]) |->
                              IF h[u][k].to = v
                              THEN [to |-> v, relationship |-> r]
                              ELSE h[u][k]]]
    ELSE [h EXCEPT ![u] = Append(h[u], [to |-> v, relationship |-> r])]

\* graph.neighbors(node), in adjacency order
neighbors(g, node) == [k \in 1..Len(g[node]) |-> g[node][k].to]

\* The direct child elements of element i, in document order.
Children(doc, i) == SelectSeq([k \in 1..Len(doc) |-> k], LAMBDA k : doc[k].parent = i)

\* ---------------------------------------------------------------- parse_xml
\* attrs = dict(element.attrib) plus 'tag' and 'text'.
ElementAttrs(el) == [id |-> el.id, tag |-> el.tag, text |-> ""]

\* First pass: one node and one attribute record per element with an id.
RECURSIVE FirstPass(_, _, _, _)
FirstPass(doc, i, g, attrs) ==
    IF i > Len(doc) THEN [graph |-> g, attrs |-> attrs]
    ELSE IF doc[i].id # 0
         THEN FirstPass(doc, i + 1, add_node(g, doc[i].id),
                        (doc[i].id :> ElementAttrs(doc[i])) @@ attrs)
         ELSE FirstPass(doc, i + 1, g, attrs)

\* Variant of the inner loop: only the parent_of edge is added.
RECURSIVE LinkChildren_OneWay(_, _, _, _)
LinkChildren_OneWay(doc, parent_id, kids, g) ==
    IF kids = <<>> THEN g
    ELSE LET child_id == doc[Head(kids)].id IN
         IF child_id # 0
         THEN LinkChildren_OneWay(doc, parent_id, Tail(kids),
                  add_edge(g, parent_id, child_id, "parent_of"))
         ELSE LinkChildren_OneWay(doc, parent_id, Tail(kids), g)

\* Inner loop of the second pass: the children of one element.
RECURSIVE LinkChildren(_, _, _, _)
LinkChildren(doc, parent_id, kids, g) ==
    IF kids = <<>> THEN g
    ELSE LET child_id == doc[Head(kids)].id IN
         IF child_id # 0
         THEN LinkChildren(doc, parent_id, Tail(kids),
                  add_edge(add_edge(g, parent_id, child_id, "parent_of"),
                           child_id, parent_id, "child_of"))
         ELSE LinkChildren(doc, parent_id, Tail(kids), g)

\* Second pass: both edges for every element with an id and each direct
\* child with an id.
RECURSIVE SecondPass(_, _, _)
SecondPass(doc, i, g) ==
    IF i > Len(doc) THEN g
    ELSE IF doc[i].id # 0
         THEN SecondPass(doc, i + 1, LinkChildren(doc, doc[i].id, Children(doc, i), g))
         ELSE SecondPass(doc, i + 1, g)

\* The exception raised inside the try block, if any, by class.
RaisedInTry(file) ==
    IF file.kind = "missing"
    THEN [cls |-> "FileMakerGraphError", msg |-> <<"XML file not found">>]
    ELSE IF file.kind = "malformed"
    THEN [cls |-> "XMLSyntaxError", msg |-> <<"syntax error">>]
    ELSE IF file.kind = "unreadable"
    THEN [cls |-> "OSError", msg |-> <<"cannot read">>]
    ELSE [cls |-> "none", msg |-> <<>>]

\* The except clauses: XMLSyntaxError first, then every other Exception.
\* Either way a FileMakerGraphError is raised, with these message parts.
HandleParseError(exc) ==
    IF exc.cls = "XMLSyntaxError"
    THEN <<"Invalid XML file">> \o exc.msg
    ELSE <<"Error parsing XML">> \o exc.msg

Idle == pc = "idle"

TraversalLocals == <<visited, paths, queue, stack>>
FormatVars == <<contexts, formatted>>
QueryLocals == <<bfs_paths, all_paths>>

NoCall == [op |-> "none", start |-> 0, max_hops |-> 0]

\* The files parse_xml may be handed in the current state.
LoadableFiles == IF DOMAIN graph = {} THEN Files ELSE BadFiles

\* parse_xml(xml_path). load_database parses once into the fresh store of a
\* new FileMakerRAG; a file that cannot be parsed may be tried at any time.
ParseXml(file) ==
    /\ Idle
    /\ xml' = file
    /\ call' = [op |-> "parse_xml", start |-> 0, max_hops |-> 0]
    /\ LET exc == RaisedInTry(file) IN
       IF exc.cls # "none"
       THEN /\ error' = HandleParseError(exc)
            /\ UNCHANGED <<graph, node_attributes>>
       ELSE /\ LET fp == FirstPass(file.doc, 1, graph, node_attributes) IN
               /\ graph' = SecondPass(file.doc, 1, fp.graph)
               /\ node_attributes' = fp.attrs
            /\ error' = <<>>
    /\ pc' = "done"
    /\ UNCHANGED <<TraversalLocals, returned, FormatVars, QueryLocals>>

\* ---------------------------------------------------------------- bfs_search
\* Variant: the start node is never looked up.
StartMissing_Never(g, start_node) == FALSE

\* `start_node not in self.graph`
StartMissing(g, start_node) == start_node \notin DOMAIN g

\* Variants of the hop test: an exclusive limit, and a limit one hop late.
BfsOverLimit_Exclusive(hops, max_hops) == hops >= max_hops
BfsOverLimit_Late(hops, max_hops) == hops > max_hops + 1

\* `if hops > max_hops: continue`
BfsOverLimit(hops, max_hops) == hops > max_hops

BfsSearch(start_node, max_hops) ==
    /\ Idle
    /\ call' = [op |-> "bfs_search", start |-> start_node, max_hops |-> max_hops]
    /\ IF StartMissing(graph, start_node)
       THEN /\ error' = <<"Start node not found">>
            /\ pc' = "done"
            /\ UNCHANGED TraversalLocals
       ELSE /\ error' = <<>>
            /\ visited' = {}
            /\ paths' = <<>>
            /\ queue' = <<[node |-> start_node, path |-> <<start_node>>, hops |-> 0]>>
            /\ pc' = "bfs"
            /\ UNCHANGED stack
    /\ UNCHANGED <<xml, graph, node_attributes, returned, FormatVars, QueryLocals>>

\* The neighbours of `node` not yet visited, each as a queue entry.
RECURSIVE Enqueue(_, _, _, _)
Enqueue(nbrs, seen, path, hops) ==
    IF nbrs = <<>> THEN <<>>
    ELSE IF Head(nbrs) \notin seen
         THEN <<[node |-> Head(nbrs), path |-> Append(path, Head(nbrs)), hops |-> hops + 1]>>
              \o Enqueue(Tail(nbrs), seen, path, hops)
         ELSE Enqueue(Tail(nbrs), seen, path, hops)

\* Variant of the loop body: a dequeued node is recorded whether or not it
\* was visited before.
BfsStep_Revisit ==
    /\ pc = "bfs"
    /\ queue # <<>>
    /\ LET e == Head(queue) IN
       IF BfsOverLimit(e.hops, call.max_hops)
       THEN /\ queue' = Tail(queue)
            /\ UNCHANGED <<visited, paths>>
       ELSE /\ visited' = visited \cup {e.node}
            /\ paths' = Append(paths, e.path)
            /\ queue' = Tail(queue) \o
                  Enqueue(neighbors(graph, e.node), visited \cup {e.node}, e.path, e.hops)
    /\ UNCHANGED <<xml, graph, node_attributes, pc, call, error,
                   stack, returned, FormatVars, QueryLocals>>

\* One iteration of `while queue:`.
BfsStep ==
    /\ pc = "bfs"
    /\ queue # <<>>
    /\ LET e == Head(queue) IN
       IF BfsOverLimit(e.hops, call.max_hops)
       THEN /\ queue' = Tail(queue)
            /\ UNCHANGED <<visited, paths>>
       ELSE IF e.node \notin visited
       THEN /\ visited' = visited \cup {e.node}
            /\ paths' = Append(paths, e.path)
            /\ queue' = Tail(queue) \o
                  Enqueue(neighbors(graph, e.node), visited \cup {e.node}, e.path, e.hops)
       ELSE /\ queue' = Tail(queue)
            /\ UNCHANGED <<visited, paths>>
    /\ UNCHANGED <<xml, graph, node_attributes, pc, call, error,
                   stack, returned, FormatVars, QueryLocals>>

\* The loop ends and bfs_search returns paths.
BfsReturn ==
    /\ pc = "bfs"
    /\ call.op = "bfs_search"
    /\ queue = <<>>
    /\ pc' = "done"
    /\ UNCHANGED <<xml, graph, node_attributes, call, error,
                   TraversalLocals, returned, FormatVars, QueryLocals>>

\* ---------------------------------------------------------------- dfs_search
\* A frame of dfs_recursive(node, path, hops); idx = 0 at the entry of the
\* function, afterwards the position of the neighbour loop.
Frame(node, path, hops) == [node |-> node, path |-> path, hops |-> hops, idx |-> 0]

Top == stack[Len(stack)]

\* Variant of the hop test: an exclusive limit.
DfsOverLimit_Exclusive(hops, max_hops) == hops >= max_hops

\* `hops > max_hops` at the entry of dfs_recursive
DfsOverLimit(hops, max_hops) == hops > max_hops
\* Variant: the frame is not taken off the stack.
Pop_Keep == stack
Pop == SubSeq(stack, 1, Len(stack) - 1)

DfsSearch(start_node, max_hops) ==
    /\ Idle
    /\ call' = [op |-> "dfs_search", start |-> start_node, max_hops |-> max_hops]
    /\ IF StartMissing(graph, start_node)
       THEN /\ error' = <<"Start node not found">>
            /\ pc' = "done"
            /\ UNCHANGED TraversalLocals
       ELSE /\ error' = <<>>
            /\ visited' = {}
            /\ paths' = <<>>
            /\ stack' = <<Frame(start_node, <<start_node>>, 0)>>
            /\ pc' = "dfs"
            /\ UNCHANGED queue
    /\ UNCHANGED <<xml, graph, node_attributes, returned, FormatVars, QueryLocals>>

\* Entry of dfs_recursive: return at once, or visit and record the node.
DfsEnter ==
    /\ pc = "dfs"
    /\ stack # <<>>
    /\ Top.idx = 0
    /\ IF DfsOverLimit(Top.hops, call.max_hops) \/ Top.node \in visited
       THEN /\ stack' = Pop
            /\ UNCHANGED <<visited, paths>>
       ELSE /\ visited' = visited \cup {Top.node}
            /\ paths' = Append(paths, Top.path)
            /\ stack' = [stack EXCEPT ![Len(stack)].idx = 1]
    /\ UNCHANGED <<xml, graph, node_attributes, pc, call, error, queue,
                   returned, FormatVars, QueryLocals>>

\* One iteration of the neighbour loop: recurse into an unvisited neighbour.
DfsLoop ==
    /\ pc = "dfs"
    /\ stack # <<>>
    /\ Top.idx >= 1
    /\ Top.idx <= Len(graph[Top.node])
    /\ LET neighbor == neighbors(graph, Top.node)[Top.idx]
           advanced == [stack EXCEPT ![Len(stack)].idx = Top.idx + 1] IN
       stack' = IF neighbor \notin visited
                THEN Append(advanced, Frame(neighbor, Append(Top.path, neighbor), Top.hops + 1))
                ELSE advanced
    /\ UNCHANGED <<xml, graph, node_attributes, pc, call, error, visited, paths,
                   queue, returned, FormatVars, QueryLocals>>

\* The neighbour loop is over: dfs_recursive returns to its caller.
DfsUnwind ==
    /\ pc = "dfs"
    /\ stack # <<>>
    /\ Top.idx > Len(graph[Top.node])
    /\ stack' = Pop
    /\ UNCHANGED <<xml, graph, node_attributes, pc, call, error, visited, paths,
                   queue, returned, FormatVars, QueryLocals>>

\* The outermost dfs_recursive has returned: dfs_search returns paths.
DfsReturn ==
    /\ pc = "dfs"
    /\ call.op = "dfs_search"
    /\ stack = <<>>
    /\ pc' = "done"
    /\ UNCHANGED <<xml, graph, node_attributes, call, error, TraversalLocals,
                   returned, FormatVars, QueryLocals>>

\* ---------------------------------------------------------------- query
\* The path gathering of query for one start node: bfs_search, then
\* dfs_search, then the set of the paths of both. query passes max_hops=4 to
\* both searches; the limit is an argument here so that the two searches are
\* compared under every limit.
QueryMaxHops == 4
QueryHopLimits == (0..MaxHops) \cup {QueryMaxHops}

\* relevant_nodes is drawn from the keys of node_attributes.
RelevantNodes == DOMAIN node_attributes

\* bfs_paths = self.graph.bfs_search(start_node, max_hops): the call starts.
QueryBfs(start_node, max_hops) ==
    /\ Idle
    /\ start_node \in RelevantNodes
    /\ call' = [op |-> "query", start |-> start_node, max_hops |-> max_hops]
    /\ IF StartMissing(graph, start_node)
       THEN /\ error' = <<"Error processing query", "Start node not found">>
            /\ pc' = "done"
            /\ UNCHANGED TraversalLocals
       ELSE /\ error' = <<>>
            /\ visited' = {}
            /\ paths' = <<>>
            /\ queue' = <<[node |-> start_node, path |-> <<start_node>>, hops |-> 0]>>
            /\ pc' = "bfs"
            /\ UNCHANGED stack
    /\ UNCHANGED <<xml, graph, node_attributes, returned, FormatVars, QueryLocals>>

\* bfs_search returns into bfs_paths and
\* dfs_paths = self.graph.dfs_search(start_node, max_hops) starts.
QueryDfs ==
    /\ pc = "bfs"
    /\ call.op = "query"
    /\ queue = <<>>
    /\ bfs_paths' = paths
    /\ visited' = {}
    /\ paths' = <<>>
    /\ stack' = <<Frame(call.start, <<call.start>>, 0)>>
    /\ pc' = "dfs"
    /\ UNCHANGED <<xml, graph, node_attributes, call, error, queue, returned,
                   all_paths, FormatVars>>

\* dfs_search returns and
\* all_paths = set(tuple(path) for path in bfs_paths + dfs_paths).
QueryUnion ==
    /\ pc = "dfs"
    /\ call.op = "query"
    /\ stack = <<>>
    /\ all_paths' = Range(bfs_paths \o paths)
    /\ pc' = "done"
    /\ UNCHANGED <<xml, graph, node_attributes, call, error, TraversalLocals,
                   returned, bfs_paths, FormatVars>>

\* ---------------------------------------------------------------- contexts
\* The out-edges of node_id with the given relationship, as {id, attributes}.
Related(g, attrs, node_id, rel) ==
    LET es == SelectSeq(g[node_id], LAMBDA e : e.relationship = rel) IN
    [k \in 1..Len(es) |-> [id |-> es[k].to, attributes |-> attrs[es[k].to]]]

\* get_node_context for a node that has an attribute record.
get_node_context(g, attrs, node_id) ==
    [attributes |-> attrs[node_id],
     parents |-> Related(g, attrs, node_id, "child_of"),
     children |-> Related(g, attrs, node_id, "parent_of")]

\* `node_id not in self.node_attributes`
NodeMissing(attrs, node_id) == node_id \notin DOMAIN attrs

GetNodeContext(node_id) ==
    /\ Idle
    /\ call' = [op |-> "get_node_context", start |-> node_id, max_hops |-> 0]
    /\ IF NodeMissing(node_attributes, node_id)
       THEN /\ error' = <<"Node not found">>
            /\ UNCHANGED returned
       ELSE /\ error' = <<>>
            /\ returned' = <<get_node_context(graph, node_attributes, node_id)>>
    /\ pc' = "done"
    /\ UNCHANGED <<xml, graph, node_attributes, TraversalLocals, FormatVars, QueryLocals>>

\* get_path_context: the list comprehension raises at the first absent node.
GetPathContext(path) ==
    /\ Idle
    /\ call' = [op |-> "get_path_context", start |-> path, max_hops |-> 0]
    /\ IF \E k \in 1..Len(path) : NodeMissing(node_attributes, path[k])
       THEN /\ error' = <<"Node not found">>
            /\ UNCHANGED returned
       ELSE /\ error' = <<>>
            /\ returned' = [k \in 1..Len(path) |->
                               get_node_context(graph, node_attributes, path[k])]
    /\ pc' = "done"
    /\ UNCHANGED <<xml, graph, node_attributes, TraversalLocals, FormatVars, QueryLocals>>

\* The caller has taken the outcome of the call (the return value or the
\* exception); the call's arguments, locals and result are gone, the store stays.
Continue ==
    /\ pc = "done"
    /\ pc' = "idle"
    /\ xml' = NoFile
    /\ call' = NoCall
    /\ error' = <<>>
    /\ visited' = {}
    /\ paths' = <<>>
    /\ queue' = <<>>
    /\ stack' = <<>>
    /\ returned' = <<>>
    /\ bfs_paths' = <<>>
    /\ all_paths' = {}
    /\ formatted' = <<>>
    /\ UNCHANGED <<graph, node_attributes, contexts>>

PathArgs == UNION { [1..n -> QueryIds] : n \in 0..MaxPathArg }

\* ---------------------------------------------------------------- format_context
\* dict.get(key, default) on an attribute record
Get(attrs, key, default) == IF key \in DOMAIN attrs THEN attrs[key] ELSE default

\* key = f"{tag}_{name}_{text}"
DedupKey(attrs) ==
    Get(attrs, "tag", "") \o "_" \o Get(attrs, "name", "") \o "_" \o Get(attrs, "text", "")

\* ', '.join(names)
RECURSIVE JoinComma(_)
JoinComma(names) ==
    IF names = <<>> THEN ""
    ELSE IF Len(names) = 1 THEN names[1]
    ELSE names[1] \o ", " \o JoinComma(Tail(names))

\* " | ".join(node_info)
RECURSIVE JoinBar(_)
JoinBar(parts) ==
    IF parts = <<>> THEN ""
    ELSE IF Len(parts) = 1 THEN parts[1]
    ELSE parts[1] \o " | " \o JoinBar(Tail(parts))

\* [p['attributes'].get('name', p['id']) for p in related]
NamesOrIds(related) ==
    [k \in 1..Len(related) |-> Get(related[k].attributes, "name", related[k].id)]

\* The line of one context.
NodeInfo(ctx) ==
    LET attrs == ctx.attributes IN
    JoinBar(
        <<"Type: " \o Get(attrs, "tag", "unknown")>>
        \o (IF "name" \in DOMAIN attrs THEN <<"Name: " \o attrs.name>> ELSE <<>>)
        \o (IF "text" \in DOMAIN attrs /\ attrs.text # ""
            THEN <<"Content: " \o attrs.text>> ELSE <<>>)
        \o (IF Get(ctx, "parents", <<>>) # <<>>
            THEN <<"Parents: " \o JoinComma(NamesOrIds(ctx.parents))>> ELSE <<>>)
        \o (IF Get(ctx, "children", <<>>) # <<>>
            THEN <<"Children: " \o JoinComma(NamesOrIds(ctx.children))>> ELSE <<>>))

\* The loop of format_context over ctxs[i..], with the keys seen so far;
\* the result is the list `formatted` (the return value joins it with "\n").
RECURSIVE FormatFrom(_, _, _)
FormatFrom(ctxs, i, seen) ==
    IF i > Len(ctxs) THEN <<>>
    ELSE IF "attributes" \notin DOMAIN ctxs[i] THEN FormatFrom(ctxs, i + 1, seen)
    ELSE LET key == DedupKey(ctxs[i].attributes) IN
         IF key \in seen THEN FormatFrom(ctxs, i + 1, seen)
         ELSE <<NodeInfo(ctxs[i])>> \o FormatFrom(ctxs, i + 1, seen \cup {key})

format_context(ctxs) == FormatFrom(ctxs, 1, {})

FormatContext ==
    /\ Idle
    /\ call' = [op |-> "format_context", start |-> 0, max_hops |-> 0]
    /\ formatted' = format_context(contexts)
    /\ error' = <<>>
    /\ pc' = "done"
    /\ UNCHANGED <<xml, graph, node_attributes, TraversalLocals, returned, contexts,
                   QueryLocals>>

Init ==
    /\ xml = NoFile
    /\ graph = <<>>
    /\ node_attributes = <<>>
    /\ pc = "idle"
    /\ call = NoCall
    /\ error = <<>>
    /\ visited = {}
    /\ paths = <<>>
    /\ queue = <<>>
    /\ stack = <<>>
    /\ returned = <<>>
    /\ bfs_paths = <<>>
    /\ all_paths = {}
    /\ contexts = <<>>
    /\ formatted = <<>>

Next ==
    \/ \E f \in LoadableFiles : ParseXml(f)
    \/ \E s \in QueryIds, k \in 0..MaxHops : BfsSearch(s, k)
    \/ BfsStep
    \/ BfsReturn
    \/ \E s \in QueryIds, k \in 0..MaxHops : DfsSearch(s, k)
    \/ DfsEnter
    \/ DfsLoop
    \/ DfsUnwind
    \/ DfsReturn
    \/ \E n \in QueryIds : GetNodeContext(n)
    \/ \E p \in PathArgs : GetPathContext(p)
    \/ \E s \in Ids, k \in QueryHopLimits : QueryBfs(s, k)
    \/ QueryDfs
    \/ QueryUnion
    \/ Continue

Spec == Init /\ [][Next]_vars

\* The while loop and the recursion are ordinary sequential code: a step that
\* can be taken is taken.
FairSpec ==
    /\ Spec
    /\ WF_vars(BfsStep) /\ WF_vars(BfsReturn)
    /\ WF_vars(DfsEnter) /\ WF_vars(DfsLoop) /\ WF_vars(DfsUnwind) /\ WF_vars(DfsReturn)
    /\ WF_vars(QueryDfs) /\ WF_vars(QueryUnion)

\* ---------------------------------------------------------------- format_context alone
\* Attribute records a context may carry: tag and text always, name at times.
PoolTags == {"Field", "Table"}
PoolNames == {"a", "a_b"}
PoolTexts == {"", "c", "b_c"}

PoolAttrs ==
    { [tag |-> t, text |-> x] : t \in PoolTags, x \in PoolTexts }
    \cup { [tag |-> t, name |-> n, text |-> x] : t \in PoolTags, n \in PoolNames, x \in PoolTexts }

ContextPool ==
    { [attributes |-> a, parents |-> <<>>, children |-> <<>>] : a \in PoolAttrs }
    \cup { [attributes |-> [tag |-> "Table", name |-> "Orders", text |-> ""],
            parents |-> <<[id |-> "d1", attributes |-> [tag |-> "Database", text |-> ""]]>>,
            children |-> <<[id |-> "f1", attributes |-> [tag |-> "Field", name |-> "Status", text |-> ""]],
                           [id |-> "f2", attributes |-> [tag |-> "Field", text |-> ""]]>>],
           [parents |-> <<>>, children |-> <<>>] }

ContextLists == UNION { [1..n -> ContextPool] : n \in 0..MaxContexts }

InitFormat ==
    /\ xml = NoFile
    /\ graph = <<>>
    /\ node_attributes = <<>>
    /\ pc = "idle"
    /\ call = NoCall
    /\ error = <<>>
    /\ visited = {}
    /\ paths = <<>>
    /\ queue = <<>>
    /\ stack = <<>>
    /\ returned = <<>>
    /\ bfs_paths = <<>>
    /\ all_paths = {}
    /\ contexts \in ContextLists
    /\ formatted = <<>>

NextFormat ==
    \/ FormatContext
    \/ Continue

SpecFormat == InitFormat /\ [][NextFormat]_vars

\* ---------------------------------------------------------------- properties
\* Graph notions the properties are stated in, computed from the store alone.

Nodes == DOMAIN graph

HasEdge(a, b, rel) == \E k \in 1..Len(graph[a]) : graph[a][k] = [to |-> b, relationship |-> rel]

NumEdges(g) == LET RECURSIVE Sum(_)
                   Sum(S) == IF S = {} THEN 0
                             ELSE LET n == CHOOSE n \in S : TRUE IN Len(g[n]) + Sum(S \ {n})
               IN Sum(DOMAIN g)

\* The nodes at shortest-path distance at most k from a node of S.
RECURSIVE Within(_, _)
Within(S, k) ==
    IF k = 0 THEN S
    ELSE Within(S \cup UNION { Range(neighbors(graph, n)) : n \in S }, k - 1)

LastNodes(ps) == { Last(ps[i]) : i \in 1..Len(ps) }
NodesOn(ps) == UNION { Range(ps[i]) : i \in 1..Len(ps) }

Returned(op) == pc = "done" /\ call.op = op /\ error = <<>>
Raised(op) == pc = "done" /\ call.op = op /\ error # <<>>

\* Three distinct nodes of the store are pairwise adjacent, so that a node can
\* be reached by two different routes.
HasCycle == \E n \in Nodes : \E m \in Range(neighbors(graph, n)) : m # n /\
               LET others == { x \in Range(neighbors(graph, n)) : x # n /\ x # m } IN
               \E x \in others : x \in Range(neighbors(graph, m))

\* C1: when bfs_search(start, k) returns, every node at shortest-path distance
\* at most k from start is the last element of one of the returned paths.
C1_BfsCoversWithinK ==
    Returned("bfs_search") => Within({call.start}, call.max_hops) \subseteq LastNodes(paths)

\* A search that had to go two hops out, on a store with a triangle.
C1_Witness ==
    /\ Returned("bfs_search")
    /\ call.max_hops = 2
    /\ HasCycle
    /\ \E i \in 1..Len(paths) : Len(paths[i]) = 3

\* C2: when dfs_search(start, maxHops) returns, every returned path begins with
\* start and the paths together contain every node within maxHops hops of start.
C2_DfsCoversWithinMaxHops ==
    Returned("dfs_search") =>
        /\ \A i \in 1..Len(paths) : paths[i][1] = call.start
        /\ Within({call.start}, call.max_hops) \subseteq NodesOn(paths)

\* C3: bfs_search(start, 0) returns exactly [start]; no path returned by
\* bfs_search(start, k) or dfs_search(start, k) has more than k+1 nodes, and
\* only nodes reached within k hops are visited.
C3_HopLimit ==
    /\ (Returned("bfs_search") /\ call.max_hops = 0) => paths = << <<call.start>> >>
    /\ (Returned("bfs_search") \/ Returned("dfs_search")) =>
          /\ \A i \in 1..Len(paths) : Len(paths[i]) <= call.max_hops + 1
          /\ visited = LastNodes(paths)
          /\ visited \subseteq Within({call.start}, call.max_hops)

\* A search has returned a path of exactly max_hops + 1 nodes while the store
\* holds a node one hop farther away.
C3_Witness ==
    /\ Returned("bfs_search") \/ Returned("dfs_search")
    /\ \E i \in 1..Len(paths) : Len(paths[i]) = call.max_hops + 1
    /\ Within({call.start}, call.max_hops + 1) # Within({call.start}, call.max_hops)

\* C4: in the store, every edge a->b labelled parent_of has an edge b->a
\* labelled child_of, and every edge a->b labelled child_of has an edge b->a
\* labelled parent_of.
C4_Symmetry ==
    \A a \in Nodes : \A k \in 1..Len(graph[a]) :
        LET e == graph[a][k] IN
        /\ e.relationship = "parent_of" => HasEdge(e.to, a, "child_of")
        /\ e.relationship = "child_of" => HasEdge(e.to, a, "parent_of")

\* The input tree of the last parse_xml call.
NumIdentified(doc) == Cardinality({ i \in 1..Len(doc) : doc[i].id # 0 })
NumPairs(doc) ==
    Cardinality({ i \in 1..Len(doc) :
                    doc[i].id # 0 /\ doc[i].parent # 0 /\ doc[doc[i].parent].id # 0 })
UniqueIds(doc) ==
    \A i, j \in 1..Len(doc) : (i # j /\ doc[i].id # 0) => doc[i].id # doc[j].id

CountsMatch(doc) ==
    /\ Cardinality(Nodes) = NumIdentified(doc)
    /\ Cardinality(DOMAIN node_attributes) = NumIdentified(doc)
    /\ NumEdges(graph) = 2 * NumPairs(doc)

\* C5 as stated: after parse_xml of a tree with N elements carrying an id and
\* E parent-child pairs where both carry one, the store has N nodes, N
\* attribute records and 2*E directed edges.
C5_RoundTripCount ==
    Returned("parse_xml") => CountsMatch(xml.doc)

\* C5 amended: the same, for a tree in which no two elements share an id.
C5_RoundTripCountUniqueIds ==
    (Returned("parse_xml") /\ UniqueIds(xml.doc)) => CountsMatch(xml.doc)

\* A tree of distinct ids with an element without id in between and at least
\* two linked pairs has been parsed.
C5_Witness ==
    /\ Returned("parse_xml")
    /\ UniqueIds(xml.doc)
    /\ NumIdentified(xml.doc) < Len(xml.doc)
    /\ NumPairs(xml.doc) >= 2
    /\ NumEdges(graph) = 4

\* C6: for an identifier absent from the store, bfs_search, dfs_search and
\* get_node_context raise and return nothing, get_path_context raises when a
\* node of its path is absent, and no search is ever under way from an absent
\* start node.
C6_NotFound ==
    /\ (pc = "done" /\ call.op \in {"bfs_search", "dfs_search"} /\ call.start \notin Nodes)
          => (error = <<"Start node not found">> /\ paths = <<>>)
    /\ (pc = "done" /\ call.op = "get_node_context" /\ call.start \notin Nodes)
          => (error = <<"Node not found">> /\ returned = <<>>)
    /\ (pc = "done" /\ call.op = "get_path_context"
            /\ \E k \in 1..Len(call.start) : call.start[k] \notin Nodes)
          => (error = <<"Node not found">> /\ returned = <<>>)
    /\ pc \in {"bfs", "dfs"} => call.start \in Nodes

\* A lookup of an absent identifier has raised on a store that is not empty.
C6_Witness ==
    /\ Nodes # {}
    /\ \/ Raised("bfs_search") \/ Raised("dfs_search") \/ Raised("get_node_context")
    /\ call.start \notin Nodes

\* The (tag, name, text) triple of an attribute record, a missing field read
\* as the empty string.
Triple(attrs) == <<Get(attrs, "tag", ""), Get(attrs, "name", ""), Get(attrs, "text", "")>>

\* One line per distinct triple, in order of first occurrence.
RECURSIVE LinesByTriple(_, _, _)
LinesByTriple(ctxs, i, seen) ==
    IF i > Len(ctxs) THEN <<>>
    ELSE IF "attributes" \notin DOMAIN ctxs[i] \/ Triple(ctxs[i].attributes) \in seen
         THEN LinesByTriple(ctxs, i + 1, seen)
         ELSE <<NodeInfo(ctxs[i])>>
              \o LinesByTriple(ctxs, i + 1, seen \cup {Triple(ctxs[i].attributes)})

\* C7: the output of format_context has exactly one line per distinct
\* (tag, name, text) triple of the list, in order of first occurrence: two
\* contexts share a line if and only if their triples are identical.
C7_DedupByTriple ==
    Returned("format_context") => formatted = LinesByTriple(contexts, 1, {})

\* C8: within one bfs_search or dfs_search call no path holds a node twice, no
\* two recorded paths end in the same node, and there are as many recorded
\* paths as visited nodes.
C8_NoNodeRecordedTwice ==
    (pc \in {"bfs", "dfs"} \/ Returned("bfs_search") \/ Returned("dfs_search")) =>
        /\ \A i \in 1..Len(paths) : NoDup(paths[i])
        /\ \A i, j \in 1..Len(paths) : i # j => Last(paths[i]) # Last(paths[j])
        /\ Len(paths) = Cardinality(visited)

\* A search has returned at least three paths on a store where a node can be
\* reached by several routes.
C8_Witness ==
    /\ Returned("bfs_search") \/ Returned("dfs_search")
    /\ HasCycle
    /\ Len(paths) >= 3
    /\ NumEdges(graph) >= 6

\* C9: every bfs_search and every dfs_search that has started returns.
C9_Terminates == (pc \in {"bfs", "dfs"}) ~> (pc = "done")

\* dfs_search has returned at least three paths from a start node that has an
\* edge to itself.
C9_Witness ==
    /\ Returned("dfs_search")
    /\ call.start \in Range(neighbors(graph, call.start))
    /\ call.max_hops >= 1
    /\ Len(paths) >= 3

\* The outcome a caller can tell from the message of the FileMakerGraphError
\* that parse_xml raised.
ErrorKind(msg) ==
    IF msg = <<>> THEN "none"
    ELSE IF Head(msg) = "XML file not found" THEN "NotFound"
    ELSE IF Head(msg) = "Invalid XML file" THEN "ParseError"
    ELSE "BuildError"

\* C10: parse_xml of a path that does not exist ends in the NotFound outcome,
\* not the ParseError or the BuildError one, and leaves the store as it was.
C10_MissingFileNotFound ==
    [][(pc = "idle" /\ pc' = "done" /\ call'.op = "parse_xml" /\ xml'.kind = "missing")
          => /\ ErrorKind(error') = "NotFound"
             /\ graph' = graph
             /\ node_attributes' = node_attributes]_vars

\* The paths without a repeated node that leave s and have at most k hops.
ExtendPaths(P) ==
    P \cup UNION { { Append(p, m) : m \in Range(neighbors(graph, Last(p))) \ Range(p) } :
                   p \in P }

RECURSIVE GrowPaths(_, _)
GrowPaths(P, k) == IF k = 0 THEN P ELSE GrowPaths(ExtendPaths(P), k - 1)

SimplePathsFrom(s, k) == GrowPaths({<<s>>}, k)

\* No node has an edge to itself and no node can be reached from another by
\* two different paths.
IsForest ==
    /\ \A n \in Nodes : n \notin Range(neighbors(graph, n))
    /\ \A s \in Nodes : \A p, q \in SimplePathsFrom(s, Cardinality(Nodes)) :
           Last(p) = Last(q) => p = q

\* p is a path of the store from start to its last node, no path from start
\* to that node is shorter, and no other path from start leads there.
UniqueShortestPath(start, p) ==
    /\ p \in SimplePathsFrom(start, Len(p) - 1)
    /\ Len(p) >= 2 => Last(p) \notin Within({start}, Len(p) - 2)
    /\ \A q \in SimplePathsFrom(start, Cardinality(Nodes)) : Last(q) = Last(p) => q = p

\* C11: parse_xml of a tree in which no two elements share an id builds a
\* forest, and on a forest the paths gathered for a start node and a hop limit
\* are the same set for dfs_search as for bfs_search, so their union is the
\* set bfs_search returned; each of them is the unique shortest path from the
\* start node to its last node.
C11_BfsDfsSamePathsOnForest ==
    /\ (Returned("parse_xml") /\ UniqueIds(xml.doc)) => IsForest
    /\ (Returned("query") /\ IsForest) =>
          /\ Range(paths) = Range(bfs_paths)
          /\ all_paths = Range(bfs_paths)
          /\ \A p \in all_paths : UniqueShortestPath(call.start, p)

\* Both searches have been run on a forest from a node that is neither a root
\* nor a leaf, under a hop limit that cuts nodes off.
C11_Witness ==
    /\ Returned("query")
    /\ IsForest
    /\ Len(graph[call.start]) >= 2
    /\ Cardinality(all_paths) >= 3
    /\ \E p \in all_paths : Len(p) = call.max_hops + 1
    /\ Cardinality(all_paths) < Cardinality(Nodes)

====
